---- MODULE Spec2Model ----
(***************************************************************************)
(* Model of go/pkg/bertyprotocol/api_services_auth.go: the PKCE           *)
(* authorization-code flow of the protocol service.                        *)
(*                                                                         *)
(* Strings that the code only compares or copies are modelled as values:  *)
(* the empty string of a query parameter or nonce-derived field is <<>>,   *)
(* an encoded value is a tagged tuple (<<"b64", x>>, <<"sha256", x>>).     *)
(* A Go pointer that may be nil is a sequence of length 0 (nil) or 1.      *)
(***************************************************************************)
EXTENDS Integers, Sequences, FiniteSets, TLC

VARIABLES
    authSession,   \* s.authSession (atomic.Value): <<>> or <<session>>
    nonceSrc,      \* number of nonces handed out by cryptoutil.GenerateNonce
    tokens,        \* the metadata store's service tokens, in append order
    pushServer,    \* the push server set by PushSetServer: <<>> or <<server>>
    stored,        \* history: every session passed to authSession.Store, in order
    completed,     \* history: the sessions a CompleteFlow has succeeded with
    pc,            \* pc[p]: where the call running on p stands
    call           \* call[p]: request, locals and reply of the call running on p

vars == <<authSession, nonceSrc, tokens, pushServer, stored, completed, pc, call>>

----------------------------------------------------------------------------
\* Bounds of the model

\* Nonces the random source can hand out (two per started session).
MaxNonce == 4
\* Capacity of the metadata store in the model.
MaxTokens == 1
\* Tokens the metadata store holds at most when a listing of it is examined.
MaxListed == 2

\* The goroutines that serve calls: two calls can be in progress at once.
Procs == {"g1", "g2"}

----------------------------------------------------------------------------
\* Constants of the flow

AuthResponseType == "code"
AuthGrantType == "authorization_code"
AuthRedirect == "berty://services-auth/"
AuthClientID == "berty"
AuthCodeChallengeMethod == "S256"
AuthHTTPPathAuthorize == "/authorize"
AuthHTTPPathTokenExchange == "/oauth/token"
ServicePushID == "push"

\* errcode values returned by the handlers ("" is a nil error)
ErrServicesAuthInvalidURL == "ErrServicesAuthInvalidURL"
ErrServicesAuthNotInitialized == "ErrServicesAuthNotInitialized"
ErrServicesAuthWrongState == "ErrServicesAuthWrongState"
ErrServicesAuthServer == "ErrServicesAuthServer"
ErrServicesAuthInvalidResponse == "ErrServicesAuthInvalidResponse"
ErrStreamWrite == "ErrStreamWrite"
ErrStreamRead == "ErrStreamRead"
ErrDeserialization == "ErrDeserialization"
\* errors that are not errcodes of this file
ErrURLParse == "url.Parse error"
ErrNonce == "GenerateNonce error"
ErrMetadataStore == "metadataStore error"
ErrSend == "server.Send error"

----------------------------------------------------------------------------
\* Strings, encodings and digests

EmptyString == <<>>

\* base64.RawURLEncoding.EncodeToString
B64(bytes) == <<"b64", bytes>>

\* []byte(s): the bytes of the characters of a string
StrBytes(s) == <<"bytes", s>>

\* sha256.Sum256
Sha256(bytes) == <<"sha256", bytes>>

\* The n-th value of the random source (cryptoutil.GenerateNonce).
Nonce(n) == <<"nonce", n>>

\* authSessionCodeChallenge with a bug: the verifier is not hashed.
authSessionCodeChallengePlain(codeVerifier) == codeVerifier

authSessionCodeChallenge(codeVerifier) == B64(Sha256(StrBytes(codeVerifier)))

\* authSessionCodeVerifierAndChallenge, given the nonce it drew
authSessionCodeVerifierAndChallenge(verifierArr) ==
    LET verifier == B64(verifierArr)
    IN  [verifier |-> verifier, challenge |-> authSessionCodeChallenge(verifier)]

\* newAuthSession, given the two nonces it drew
newAuthSession(baseURL, state, verifierArr) ==
    LET vc == authSessionCodeVerifierAndChallenge(verifierArr)
    IN  [auth |-> [baseURL |-> baseURL,
                   state |-> B64(state),
                   codeVerifier |-> vc.verifier],
         challenge |-> vc.challenge]

----------------------------------------------------------------------------
\* URLs given to AuthServiceInitFlow.  A URL string is modelled by what
\* url.Parse makes of it and by the number of "/" it ends with.

URL(parses, scheme, host, slashes) ==
    [parses |-> parses, scheme |-> scheme, host |-> host, slashes |-> slashes]

BaseURLs ==
    { URL(TRUE, "https", "a.io", 1),
      URL(TRUE, "http", "b.io", 0),
      URL(TRUE, "ftp", "a.io", 0),
      URL(TRUE, "https", "", 0),
      URL(FALSE, "", "", 0) }

\* strings.TrimSuffix(baseURL, "/")
TrimSuffixSlash(u) ==
    IF u.slashes > 0 THEN [u EXCEPT !.slashes = u.slashes - 1] ELSE u

\* the checks of authInitURL on the parsed URL
ValidAuthURL(u) ==
    /\ u.parses
    /\ u.scheme \in {"http", "https"}
    /\ u.host # ""

\* the URL authInitURL formats
InitURL(baseURL, auth, codeChallenge) ==
    [base |-> baseURL,
     path |-> AuthHTTPPathAuthorize,
     response_type |-> AuthResponseType,
     client_id |-> AuthClientID,
     redirect_uri |-> AuthRedirect,
     state |-> auth.state,
     code_challenge |-> codeChallenge,
     code_challenge_method |-> AuthCodeChallengeMethod]

----------------------------------------------------------------------------
\* The record of a call: its request, the handler's locals, its reply.

NoCall ==
    [op |-> "none",
     baseURL |-> <<>>,      \* InitFlow: request.AuthURL
     cb |-> <<>>,           \* CompleteFlow: the parsed request.CallbackURL
     auth |-> <<>>,         \* the *authSession built or loaded
     challenge |-> <<>>,    \* InitFlow: codeChallenge
     loadIdx |-> 0,         \* history: Len(stored) when CompleteFlow began
     replay |-> FALSE,      \* history: the loaded session had been completed
     req |-> <<>>,          \* CompleteFlow: the token-exchange request sent
     res |-> <<>>,          \* CompleteFlow: what the exchange returned
     services |-> <<>>,     \* the services built from the response
     svcToken |-> <<>>,     \* the *ServiceToken handed to the metadata store
     appended |-> FALSE,    \* the metadata store accepted svcToken
     idx |-> 0,             \* the push loop's index in services
     pushCalls |-> <<>>,    \* push collaborator calls made, in order
     infoKeys |-> <<>>,     \* history: the PublicKey of each ServerInfo reply
     ctxErr |-> "",         \* history: ctx.Err() when the handler last met it
     list |-> <<>>,         \* TokenList: what listServiceTokens returned
     sent |-> <<>>,         \* TokenList: the replies sent on the stream
     err |-> "",            \* returned error
     detail |-> "",         \* what the error wraps
     status |-> 0,          \* status code the error carries
     reply |-> <<>>]        \* returned reply

Init ==
    /\ authSession = <<>>
    /\ nonceSrc = 0
    /\ tokens = <<>>
    /\ pushServer = <<>>
    /\ stored = <<>>
    /\ completed = {}
    /\ pc = [p \in Procs |-> "idle"]
    /\ call = [p \in Procs |-> NoCall]

\* The call on p stands at `at`.  A finished call hands its reply to its
\* caller before any other step is taken: Return touches nothing but the
\* record of that call, so no interleaving of the handlers' steps is lost.
Running(p, at) ==
    /\ pc[p] = at
    /\ \A q \in Procs : pc[q] # "done"

Fail(c, err, detail, status) ==
    [c EXCEPT !.err = err, !.detail = detail, !.status = status]

\* the handler on p returns c
Returns(p, c) ==
    /\ call' = [call EXCEPT ![p] = c]
    /\ pc' = [pc EXCEPT ![p] = "done"]

\* the handler on p goes on at `at` with locals c
GoesOn(p, c, at) ==
    /\ call' = [call EXCEPT ![p] = c]
    /\ pc' = [pc EXCEPT ![p] = at]

----------------------------------------------------------------------------
\* AuthServiceInitFlow / authInitURL

\* InitFailure with a bug: the host is not checked.
InitFailureNoHostCheck(baseURL, nonceOK1, nonceOK2) ==
    IF ~(baseURL.parses /\ baseURL.scheme \in {"http", "https"})
    THEN ErrServicesAuthInvalidURL
    ELSE IF ~nonceOK1 \/ ~nonceOK2 THEN ErrNonce
    ELSE ""

\* The error authInitURL returns before it stores a session, "" if none.
\* nonceOK1, nonceOK2: whether the first and second GenerateNonce succeed.
InitFailure(baseURL, nonceOK1, nonceOK2) ==
    IF ~ValidAuthURL(baseURL) THEN ErrServicesAuthInvalidURL
    ELSE IF ~nonceOK1 \/ ~nonceOK2 THEN ErrNonce
    ELSE ""

\* The nonces newAuthSession draws before it returns.
NoncesDrawn(baseURL, nonceOK1, nonceOK2) ==
    IF ~ValidAuthURL(baseURL) \/ ~nonceOK1 THEN 0
    ELSE IF ~nonceOK2 THEN 1
    ELSE 2

\* StoreSession with a bug: a held session is not replaced.
StoreSessionKeepFirst(held, auth) == IF held = <<>> THEN <<auth>> ELSE held

\* StoreSession with a bug: the fields are stored one by one, the baseURL of
\* a held session is left in place.
StoreSessionKeepsBaseURL(held, auth) ==
    IF held = <<>> THEN <<auth>>
    ELSE <<[auth EXCEPT !.baseURL = held[1].baseURL]>>

\* StoreSession with a bug: the new session is merged into the held one.
StoreSessionMerge(held, auth) ==
    IF held = <<>> THEN <<auth>>
    ELSE <<[auth EXCEPT !.codeVerifier = held[1].codeVerifier]>>

\* s.authSession.Store(auth): the content of the slot afterwards
StoreSession(held, auth) == <<auth>>

\* authInitURL up to the return of newAuthSession
InitFlowBegin(p, baseURL, nonceOK1, nonceOK2) ==
    /\ Running(p, "idle")
    /\ nonceSrc + NoncesDrawn(baseURL, nonceOK1, nonceOK2) <= MaxNonce
    /\ LET c == [NoCall EXCEPT !.op = "InitFlow", !.baseURL = <<baseURL>>]
           err == InitFailure(baseURL, nonceOK1, nonceOK2)
           new == newAuthSession(TrimSuffixSlash(baseURL),
                                 Nonce(nonceSrc + 1), Nonce(nonceSrc + 2))
       IN  /\ nonceSrc' = nonceSrc + NoncesDrawn(baseURL, nonceOK1, nonceOK2)
           /\ IF err # ""
              THEN Returns(p, Fail(c, err, "", 0))
              ELSE GoesOn(p, [c EXCEPT !.auth = <<new.auth>>,
                                       !.challenge = new.challenge], "init_store")
    /\ UNCHANGED <<authSession, tokens, pushServer, stored, completed>>

\* s.authSession.Store(auth), then the reply of AuthServiceInitFlow
InitFlowStore(p) ==
    /\ Running(p, "init_store")
    /\ LET c == call[p]
           auth == c.auth[1]
           u == InitURL(auth.baseURL, auth, c.challenge)
       IN  /\ authSession' = StoreSession(authSession, auth)
           /\ stored' = Append(stored, auth)
           /\ Returns(p, [c EXCEPT !.reply =
                             <<[URL |-> u, SecureURL |-> (u.base.scheme = "https")]>>])
    /\ UNCHANGED <<nonceSrc, tokens, pushServer, completed>>

----------------------------------------------------------------------------
\* Inputs of AuthServiceCompleteFlow

\* values a "state" query parameter can take: absent, or any encoded nonce
CallbackStates == {EmptyString} \cup { B64(Nonce(n)) : n \in 1..MaxNonce }

\* request.CallbackURL, by what url.Parse and u.Query().Get make of it
Callbacks ==
    [parses : {TRUE}, error : {"", "access_denied"},
     state : CallbackStates, code : {"c1"}]
    \cup
    [parses : {FALSE}, error : {""}, state : {EmptyString}, code : {""}]

ServiceTypes == {ServicePushID, "repl"}

\* the endpoint a server advertises for a service type
Endpoint(type) == IF type = ServicePushID THEN "push.example" ELSE "repl.example"

\* AuthExchangeResponse.Services: a mapping from service type to endpoint
ServiceMaps ==
    { [k \in D |-> Endpoint(k)] : D \in SUBSET ServiceTypes }

NoBody == [Error |-> "", AccessToken |-> "", Services |-> <<>>]

\* the bodies that parse to an AuthExchangeResponse
Bodies ==
    [Error : {"", "invalid_grant"}, AccessToken : {"", "tok1"},
     Services : ServiceMaps]

\* What the transport and the token endpoint can answer.
\*   transportOK: ctxhttp.PostForm returned no error (else there is no response)
\*   bodyOK: ioutil.ReadAll returned no error;  jsonOK: json.Unmarshal did
\*   body: the AuthExchangeResponse the body parses to
Response(transportOK, status, bodyOK, jsonOK, body) ==
    [transportOK |-> transportOK, status |-> status, bodyOK |-> bodyOK,
     jsonOK |-> jsonOK, body |-> body]

\* With status 200 every body; with a status of 300 or more an unreadable
\* body, a body that is no JSON, a body reporting an error and a body that
\* status 200 would have been accepted with.
ExchangeResponses ==
    { Response(FALSE, 0, FALSE, FALSE, NoBody) }
    \cup { Response(TRUE, st, FALSE, FALSE, NoBody) : st \in {200, 300, 500} }
    \cup { Response(TRUE, st, TRUE, FALSE, NoBody) : st \in {200, 300, 500} }
    \cup { Response(TRUE, 200, TRUE, TRUE, b) : b \in Bodies }
    \cup { Response(TRUE, st, TRUE, TRUE, b) :
              st \in {300, 500},
              b \in { c \in Bodies : c.AccessToken = "tok1" /\
                                     DOMAIN c.Services = ServiceTypes } }

\* The exchange answered with a status under 300, no error, an access token
\* and at least one service.
GoodResponse(r) ==
    /\ r.transportOK /\ r.status < 300 /\ r.bodyOK /\ r.jsonOK
    /\ r.body.Error = ""
    /\ r.body.AccessToken # ""
    /\ DOMAIN r.body.Services # {}

\* The orders in which `for k, v := range m` can visit a map: the
\* []*ServiceTokenSupportedService the loop builds.
ServiceLists(m) ==
    LET n == Cardinality(DOMAIN m)
        orders == { o \in [1..n -> DOMAIN m] :
                        \A i, j \in 1..n : i # j => o[i] # o[j] }
    IN  { [i \in 1..n |-> [ServiceType |-> o[i], ServiceEndpoint |-> m[o[i]]]] :
              o \in orders }

\* An answer of the token endpoint with an order in which the handler's loop
\* visits its services.
ExchangeAnswers ==
    UNION { { [res |-> r, services |-> l] : l \in ServiceLists(r.body.Services) } :
              r \in ExchangeResponses }

ServiceToken(token, authenticationURL, services) ==
    [Token |-> token,
     AuthenticationURL |-> authenticationURL,
     SupportedServices |-> services,
     Expiration |-> -1]

\* ServiceToken.TokenID: derived from the token's content
TokenID(t) ==
    <<"tokenID", t.AuthenticationURL, t.Token,
      { t.SupportedServices[i] : i \in 1..Len(t.SupportedServices) }>>

\* The checks of the metadata store on a token it is asked to add.
MetadataStoreAccepts(t) ==
    /\ t.Token # ""
    /\ Len(t.SupportedServices) > 0

\* metadataStore.SendAccountServiceTokenAdded: storeOK is whether the store
\* can append at all; the model's store refuses once it holds MaxTokens.
SendAccountServiceTokenAdded(t, storeOK) ==
    /\ storeOK
    /\ Len(tokens) < MaxTokens
    /\ MetadataStoreAccepts(t)

----------------------------------------------------------------------------
\* AuthServiceCompleteFlow

\* CallbackFailure with a bug: the state is not compared.
CallbackFailureNoStateCheck(cb, authUntyped) ==
    IF ~cb.parses THEN ErrURLParse
    ELSE IF cb.error # "" THEN ErrServicesAuthServer
    ELSE IF authUntyped = <<>> THEN ErrServicesAuthNotInitialized
    ELSE ""

\* CallbackFailure with a bug: a missing session is reported as a wrong state.
CallbackFailureNilAsWrongState(cb, authUntyped) ==
    IF ~cb.parses THEN ErrURLParse
    ELSE IF cb.error # "" THEN ErrServicesAuthServer
    ELSE IF authUntyped = <<>> THEN ErrServicesAuthWrongState
    ELSE IF authUntyped[1].state # cb.state THEN ErrServicesAuthWrongState
    ELSE ""

\* CallbackFailure with a bug: the error parameter is looked at last.
CallbackFailureErrorLast(cb, authUntyped) ==
    IF ~cb.parses THEN ErrURLParse
    ELSE IF authUntyped = <<>> THEN ErrServicesAuthNotInitialized
    ELSE IF authUntyped[1].state # cb.state THEN ErrServicesAuthWrongState
    ELSE IF cb.error # "" THEN ErrServicesAuthServer
    ELSE ""

\* The error the handler returns before it sends the token-exchange request,
\* "" if none.  authUntyped is what s.authSession.Load() returned.
CallbackFailure(cb, authUntyped) ==
    IF ~cb.parses THEN ErrURLParse
    ELSE IF cb.error # "" THEN ErrServicesAuthServer
    ELSE IF authUntyped = <<>> THEN ErrServicesAuthNotInitialized
    ELSE IF authUntyped[1].state # cb.state THEN ErrServicesAuthWrongState
    ELSE ""

\* The form ctxhttp.PostForm posts, and where.
TokenExchangeRequest(auth, code) ==
    [endpoint |-> <<auth.baseURL, AuthHTTPPathTokenExchange>>,
     grant_type |-> AuthGrantType,
     code |-> code,
     client_id |-> AuthClientID,
     code_verifier |-> auth.codeVerifier]

\* What ctx.Err() can return: nil (""), or an error once the caller has
\* cancelled or the deadline has elapsed.
ContextErrors == {"", "context canceled", "context deadline exceeded"}

\* PostFormResult with a bug: the request is not bound to the context.
PostFormResultIgnoresContext(ctxErr, res) == res

\* What ctxhttp.PostForm(ctx, ...) returns when the token endpoint is about
\* to answer res: a context that is done while the request is in flight
\* aborts the request, and PostForm returns an error and no response.
PostFormResult(ctxErr, res) ==
    IF ctxErr # "" THEN Response(FALSE, 0, FALSE, FALSE, NoBody) ELSE res

\* ResponseFailure with a bug: status 300 is let through.
ResponseFailureStatusOver300(res) ==
    IF ~res.transportOK THEN <<ErrStreamWrite, "", 0>>
    ELSE IF res.status > 300
    THEN <<ErrServicesAuthInvalidResponse, "invalid status code", res.status>>
    ELSE IF ~res.bodyOK THEN <<ErrStreamRead, "", 0>>
    ELSE IF ~res.jsonOK THEN <<ErrDeserialization, "", 0>>
    ELSE IF res.body.Error # "" THEN <<ErrServicesAuthServer, "", 0>>
    ELSE IF res.body.AccessToken = ""
    THEN <<ErrServicesAuthInvalidResponse, "missing access token in response", 0>>
    ELSE IF Cardinality(DOMAIN res.body.Services) = 0
    THEN <<ErrServicesAuthInvalidResponse, "no services returned along token", 0>>
    ELSE <<"", "", 0>>

\* ResponseFailure with a bug: the services are checked before the token.
ResponseFailureServicesFirst(res) ==
    IF ~res.transportOK THEN <<ErrStreamWrite, "", 0>>
    ELSE IF res.status >= 300
    THEN <<ErrServicesAuthInvalidResponse, "invalid status code", res.status>>
    ELSE IF ~res.bodyOK THEN <<ErrStreamRead, "", 0>>
    ELSE IF ~res.jsonOK THEN <<ErrDeserialization, "", 0>>
    ELSE IF res.body.Error # "" THEN <<ErrServicesAuthServer, "", 0>>
    ELSE IF Cardinality(DOMAIN res.body.Services) = 0
    THEN <<ErrServicesAuthInvalidResponse, "no services returned along token", 0>>
    ELSE IF res.body.AccessToken = ""
    THEN <<ErrServicesAuthInvalidResponse, "missing access token in response", 0>>
    ELSE <<"", "", 0>>

\* ResponseFailure with a bug: an empty access token is let through.
ResponseFailureNoTokenCheck(res) ==
    IF ~res.transportOK THEN <<ErrStreamWrite, "", 0>>
    ELSE IF res.status >= 300
    THEN <<ErrServicesAuthInvalidResponse, "invalid status code", res.status>>
    ELSE IF ~res.bodyOK THEN <<ErrStreamRead, "", 0>>
    ELSE IF ~res.jsonOK THEN <<ErrDeserialization, "", 0>>
    ELSE IF res.body.Error # "" THEN <<ErrServicesAuthServer, "", 0>>
    ELSE IF Cardinality(DOMAIN res.body.Services) = 0
    THEN <<ErrServicesAuthInvalidResponse, "no services returned along token", 0>>
    ELSE <<"", "", 0>>

\* The error the handler returns on what the exchange answered, as
\* <<error, what it wraps, status code>>; <<"", "", 0>> if none.
ResponseFailure(res) ==
    IF ~res.transportOK THEN <<ErrStreamWrite, "", 0>>
    ELSE IF res.status >= 300
    THEN <<ErrServicesAuthInvalidResponse, "invalid status code", res.status>>
    ELSE IF ~res.bodyOK THEN <<ErrStreamRead, "", 0>>
    ELSE IF ~res.jsonOK THEN <<ErrDeserialization, "", 0>>
    ELSE IF res.body.Error # "" THEN <<ErrServicesAuthServer, "", 0>>
    ELSE IF res.body.AccessToken = ""
    THEN <<ErrServicesAuthInvalidResponse, "missing access token in response", 0>>
    ELSE IF Cardinality(DOMAIN res.body.Services) = 0
    THEN <<ErrServicesAuthInvalidResponse, "no services returned along token", 0>>
    ELSE <<"", "", 0>>

\* ExchangedToken with a bug: the expiration is left at its zero value.
ExchangedTokenNoExpiration(resMsg, auth, services) ==
    [ServiceToken(resMsg.AccessToken, auth.baseURL, services)
        EXCEPT !.Expiration = 0]

\* ExchangedToken with a bug: the session is loaded again from the slot.
ExchangedTokenReloads(resMsg, auth, services) ==
    ServiceToken(resMsg.AccessToken, authSession[1].baseURL, services)

\* svcToken, from the response, the loaded session and the services built
ExchangedToken(resMsg, auth, services) ==
    ServiceToken(resMsg.AccessToken, auth.baseURL, services)

\* AppendFailure with a bug: the error of the metadata store is dropped.
AppendFailureDropped(storeErr) == ""

\* The error the handler returns when SendAccountServiceTokenAdded fails: the
\* store's error, as it is.
AppendFailure(storeErr) == storeErr

\* The index of the first push service of `services` at or after i,
\* Len(services) + 1 if there is none (the `continue` of the push loop).
RECURSIVE NextPush(_, _)
NextPush(services, i) ==
    IF i > Len(services) THEN i
    ELSE IF services[i].ServiceType # ServicePushID THEN NextPush(services, i + 1)
    ELSE i

PushCall(op, endpoint, arg) == [op |-> op, endpoint |-> endpoint, arg |-> arg]

\* PushLoopFrom with a bug: the handler returns without making the push calls.
PushLoopFromDetached(p, c, i) ==
    /\ Returns(p, [c EXCEPT !.idx = Len(c.services) + 1,
                            !.reply = <<[TokenID |-> TokenID(c.svcToken[1])]>>])
    /\ completed' = completed \cup {c.auth[1]}

\* The push loop moves on to services[i..]: either it reaches the next push
\* service and calls createAndGetPushClient for it, or the loop is over and
\* the handler returns the token ID.
PushLoopFrom(p, c, i) ==
    LET j == NextPush(c.services, i)
    IN  IF j > Len(c.services)
        THEN /\ Returns(p, [c EXCEPT !.idx = j,
                                     !.reply = <<[TokenID |-> TokenID(c.svcToken[1])]>>])
             /\ completed' = completed \cup {c.auth[1]}
        ELSE /\ GoesOn(p, [c EXCEPT !.idx = j,
                                    !.pushCalls = Append(c.pushCalls,
                                        PushCall("createAndGetPushClient",
                                                 c.services[j].ServiceEndpoint,
                                                 c.svcToken[1].Token))], "push")
             /\ UNCHANGED completed

\* CompleteFlowLeaves with a bug: the handler clears the slot.
CompleteFlowClears == authSession' = <<>> /\ UNCHANGED <<nonceSrc, stored>>

\* AuthServiceCompleteFlow only loads s.authSession: none of its steps stores
\* to the slot or draws a nonce.
CompleteFlowLeaves == UNCHANGED <<authSession, nonceSrc, stored>>

\* From the parsing of the callback URL to the sending of the token-exchange
\* request.
CompleteFlowBegin(p, cb) ==
    /\ Running(p, "idle")
    /\ LET err == CallbackFailure(cb, authSession)
           loaded == cb.parses /\ cb.error = ""
           c == [NoCall EXCEPT !.op = "CompleteFlow", !.cb = <<cb>>,
                     !.auth = IF loaded THEN authSession ELSE <<>>,
                     !.loadIdx = Len(stored),
                     !.replay = loaded /\ authSession # <<>>
                                       /\ authSession[1] \in completed]
       IN  IF err # ""
           THEN Returns(p, Fail(c, err, IF err = ErrServicesAuthServer
                                        THEN cb.error ELSE "", 0))
           ELSE GoesOn(p, [c EXCEPT !.req =
                              <<TokenExchangeRequest(authSession[1], cb.code)>>],
                       "exchange")
    /\ CompleteFlowLeaves
    /\ UNCHANGED <<tokens, pushServer, completed>>

\* ctxhttp.PostForm returns: the checks on the response, the building of the
\* ServiceToken, its handing to the metadata store and the start of the push
\* loop.
\*   ctxErr: ctx.Err() while the request was in flight
\*   res: what the token endpoint answers, or was about to answer when the
\*        request was aborted: then an answer that would have been accepted
\*   services: the services, in the order the map was iterated
\*   storeOK: whether the metadata store can append
CompleteFlowExchanged(p, ctxErr, res, services, storeOK) ==
    /\ Running(p, "exchange")
    /\ ctxErr # "" => GoodResponse(res)
    /\ services \in ServiceLists(res.body.Services)
    /\ LET got == PostFormResult(ctxErr, res)
           c == [call[p] EXCEPT !.res = <<got>>, !.ctxErr = ctxErr]
           failure == ResponseFailure(got)
           svcToken == ExchangedToken(got.body, c.auth[1], services)
           built == [c EXCEPT !.services = services, !.svcToken = <<svcToken>>]
       IN  IF failure[1] # ""
           THEN /\ Returns(p, Fail(c, failure[1], failure[2], failure[3]))
                /\ UNCHANGED <<tokens, completed>>
           ELSE IF ~SendAccountServiceTokenAdded(svcToken, storeOK)
           THEN /\ Returns(p, Fail(built, AppendFailure(ErrMetadataStore), "", 0))
                /\ UNCHANGED <<tokens, completed>>
           ELSE /\ tokens' = Append(tokens, svcToken)
                /\ PushLoopFrom(p, [built EXCEPT !.appended = TRUE], 1)
    /\ CompleteFlowLeaves
    /\ UNCHANGED pushServer

PublicKeys == {"k1", "k2"}

\* How far the body of the push loop gets for one push service: each of its
\* three calls either fails, which is logged, or lets the next one be made.
PushOutcomes == {"client failed", "info failed", "set failed", "set"}

\* PushCallsAfterClient with a bug: PushSetServer is called though ServerInfo
\* failed.
PushCallsAfterClientSetsAnyway(endpoint, outcome, publicKey) ==
    IF outcome = "client failed" THEN <<>>
    ELSE <<PushCall("ServerInfo", endpoint, ""),
           PushCall("PushSetServer", endpoint, publicKey)>>

\* The calls the loop body makes after createAndGetPushClient, by outcome.
PushCallsAfterClient(endpoint, outcome, publicKey) ==
    IF outcome = "client failed" THEN <<>>
    ELSE IF outcome = "info failed" THEN <<PushCall("ServerInfo", endpoint, "")>>
    ELSE <<PushCall("ServerInfo", endpoint, ""),
           PushCall("PushSetServer", endpoint, publicKey)>>

\* repl.PublicKey of the ServerInfo call of the loop body, if it returned one.
PushInfoKeys(outcome, publicKey) ==
    IF outcome \in {"client failed", "info failed"} THEN <<>> ELSE <<publicKey>>

\* PushFailure with a bug: a failed push call fails the handler.
PushFailureEscalates(outcome) == IF outcome = "set" THEN "" ELSE "push error"

\* The error the handler returns when a call of the loop body fails: none,
\* the failure is logged and the loop goes on.
PushFailure(outcome) == ""

\* The pending calls of the loop body for services[idx] return:
\* createAndGetPushClient, then client.ServerInfo, then s.PushSetServer.
\* The handler waits for each of them.
CompleteFlowPush(p, outcome, publicKey) ==
    /\ Running(p, "push")
    /\ LET c == call[p]
           endpoint == c.services[c.idx].ServiceEndpoint
           made == [c EXCEPT !.pushCalls = c.pushCalls \o
                        PushCallsAfterClient(endpoint, outcome, publicKey),
                             !.infoKeys = c.infoKeys \o
                        PushInfoKeys(outcome, publicKey)]
       IN  /\ pushServer' =
                 IF outcome = "set"
                 THEN <<[ServerKey |-> publicKey, ServiceAddr |-> endpoint]>>
                 ELSE pushServer
           /\ IF PushFailure(outcome) # ""
              THEN /\ Returns(p, Fail(made, PushFailure(outcome), outcome, 0))
                   /\ UNCHANGED completed
              ELSE PushLoopFrom(p, made, c.idx + 1)
    /\ CompleteFlowLeaves
    /\ UNCHANGED tokens

----------------------------------------------------------------------------
\* DebugAuthServiceSetToken

\* request.Token and request.AuthenticationURL
DebugTokens ==
    [AccessToken : {"", "tok1"}, Services : ServiceMaps,
     AuthenticationURL : {URL(TRUE, "https", "a.io", 0)}]

\* A request with an order in which the handler's loop visits its services.
DebugRequests ==
    UNION { { [request |-> t, services |-> l] : l \in ServiceLists(t.Services) } :
              t \in DebugTokens }

DebugAuthServiceSetToken(p, request, services, storeOK) ==
    /\ Running(p, "idle")
    /\ services \in ServiceLists(request.Services)
    /\ LET svcToken == ServiceToken(request.AccessToken,
                                    request.AuthenticationURL, services)
           c == [NoCall EXCEPT !.op = "DebugSetToken", !.services = services,
                               !.svcToken = <<svcToken>>]
       IN  IF ~SendAccountServiceTokenAdded(svcToken, storeOK)
           THEN /\ Returns(p, Fail(c, ErrMetadataStore, "", 0))
                /\ UNCHANGED tokens
           ELSE /\ tokens' = Append(tokens, svcToken)
                /\ Returns(p, [c EXCEPT !.appended = TRUE, !.reply = <<"ok">>])
    /\ UNCHANGED <<authSession, nonceSrc, pushServer, stored, completed>>

----------------------------------------------------------------------------
\* ServicesTokenList

\* metadataStore.listServiceTokens(): the tokens the store holds, in the
\* order they were added.
listServiceTokens == tokens

\* the ServicesTokenList_Reply sent for token t
TokenListReply(t) == [TokenID |-> TokenID(t), Service |-> t]

\* TokenListIteration with a bug: the context is not looked at.
TokenListIterationIgnoresContext(ctxErr, sendOK) ==
    IF ~sendOK THEN "fail" ELSE "sent"

\* What one iteration of the loop does: it breaks when the context of the
\* stream is done, returns the error of server.Send when the send fails, and
\* has sent the reply otherwise.
TokenListIteration(ctxErr, sendOK) ==
    IF ctxErr # "" THEN "break"
    ELSE IF ~sendOK THEN "fail"
    ELSE "sent"

\* The call of listServiceTokens and the entry of the loop: with no token the
\* handler returns at once.
ServicesTokenListBegin(p) ==
    /\ Running(p, "idle")
    /\ LET c == [NoCall EXCEPT !.op = "TokenList", !.list = listServiceTokens,
                               !.idx = 1]
       IN  IF Len(c.list) = 0 THEN Returns(p, c) ELSE GoesOn(p, c, "list")
    /\ UNCHANGED <<authSession, nonceSrc, tokens, pushServer, stored, completed>>

\* One iteration of the loop, for list[idx]; after the last one the handler
\* returns nil.
\*   ctxErr: what server.Context().Err() returns
\*   sendOK: whether server.Send succeeds
ServicesTokenListSend(p, ctxErr, sendOK) ==
    /\ Running(p, "list")
    /\ LET c == [call[p] EXCEPT !.ctxErr = ctxErr]
           does == TokenListIteration(ctxErr, sendOK)
           sentOne == [c EXCEPT !.sent = Append(c.sent, TokenListReply(c.list[c.idx])),
                                !.idx = c.idx + 1]
       IN  IF does = "break" THEN Returns(p, c)
           ELSE IF does = "fail" THEN Returns(p, Fail(c, ErrSend, "", 0))
           ELSE IF sentOne.idx > Len(c.list) THEN Returns(p, sentOne)
           ELSE GoesOn(p, sentOne, "list")
    /\ UNCHANGED <<authSession, nonceSrc, tokens, pushServer, stored, completed>>

----------------------------------------------------------------------------
\* the caller receives the reply; the goroutine ends
Return(p) ==
    /\ pc[p] = "done"
    /\ pc' = [pc EXCEPT ![p] = "idle"]
    /\ call' = [call EXCEPT ![p] = NoCall]
    /\ UNCHANGED <<authSession, nonceSrc, tokens, pushServer, stored, completed>>

Next ==
    \/ \E p \in Procs, u \in BaseURLs, n1 \in BOOLEAN, n2 \in BOOLEAN :
          InitFlowBegin(p, u, n1, n2)
    \/ \E p \in Procs : InitFlowStore(p)
    \/ \E p \in Procs, cb \in Callbacks : CompleteFlowBegin(p, cb)
    \/ \E p \in Procs, e \in ContextErrors, a \in ExchangeAnswers, ok \in BOOLEAN :
          CompleteFlowExchanged(p, e, a.res, a.services, ok)
    \/ \E p \in Procs, o \in PushOutcomes, k \in PublicKeys :
          CompleteFlowPush(p, o, k)
    \/ \E p \in Procs, r \in DebugRequests, ok \in BOOLEAN :
          DebugAuthServiceSetToken(p, r.request, r.services, ok)
    \/ \E p \in Procs : ServicesTokenListBegin(p)
    \/ \E p \in Procs, e \in ContextErrors, ok \in BOOLEAN :
          ServicesTokenListSend(p, e, ok)
    \/ \E p \in Procs : Return(p)

Spec == Init /\ [][Next]_vars

\* The steps a handler takes by itself are taken: the store of the session
\* and the return to the caller.  Nothing makes the token endpoint or the
\* push collaborator answer.
LiveSpec ==
    /\ Spec
    /\ \A p \in Procs : WF_vars(InitFlowStore(p)) /\ WF_vars(Return(p))

----------------------------------------------------------------------------
\* The listing of a store that holds several tokens: ServicesTokenList only
\* reads the store, so it is examined from every content of the store up to
\* MaxListed tokens, next to the handler that adds a token without a flow.

\* the tokens the metadata store accepts from DebugAuthServiceSetToken
ListedTokens ==
    { t \in { ServiceToken(r.request.AccessToken, r.request.AuthenticationURL,
                           r.services) : r \in DebugRequests } :
          MetadataStoreAccepts(t) }

\* the contents of the store: tokens with different IDs, in any order
TokenLists ==
    { l \in UNION { [1..n -> ListedTokens] : n \in 0..MaxListed } :
          \A i, j \in 1..Len(l) : i # j => TokenID(l[i]) # TokenID(l[j]) }

ListInit ==
    /\ authSession = <<>>
    /\ nonceSrc = 0
    /\ tokens \in TokenLists
    /\ pushServer = <<>>
    /\ stored = <<>>
    /\ completed = {}
    /\ pc = [p \in Procs |-> "idle"]
    /\ call = [p \in Procs |-> NoCall]

ListNext ==
    \/ \E p \in Procs : ServicesTokenListBegin(p)
    \/ \E p \in Procs, e \in ContextErrors, ok \in BOOLEAN :
          ServicesTokenListSend(p, e, ok)
    \/ \E p \in Procs, r \in DebugRequests, ok \in BOOLEAN :
          DebugAuthServiceSetToken(p, r.request, r.services, ok)
    \/ \E p \in Procs : Return(p)

ListSpec == ListInit /\ [][ListNext]_vars

----------------------------------------------------------------------------
\* Properties

IsCompleteFlow(p) == call[p].op = "CompleteFlow"
IsInitFlow(p) == call[p].op = "InitFlow"
Finished(p) == pc[p] = "done"

\* The callback of the CompleteFlow call on p parsed and carries no error.
PlainCallback(p) == call[p].cb[1].parses /\ call[p].cb[1].error = ""

\* The session that was held when the CompleteFlow call on p began: the last
\* one stored before it.
HeldAtBegin(p) ==
    IF call[p].loadIdx = 0 THEN <<>> ELSE <<stored[call[p].loadIdx]>>

\* The call on p sent no exchange request and handed nothing to the metadata
\* store.
NothingSent(p) ==
    /\ call[p].req = <<>>
    /\ call[p].svcToken = <<>>
    /\ ~call[p].appended
    /\ call[p].reply = <<>>

InTokens(t) == \E i \in 1..Len(tokens) : tokens[i] = t

\* C1: a CompleteFlow whose callback carries no error and a state other than
\* the held session's fails with WrongState, having sent no exchange request
\* and handed nothing to the metadata store, whatever calls came before.
C1_WrongStateNoExchange ==
    \A p \in Procs :
        ( /\ IsCompleteFlow(p)
          /\ PlainCallback(p)
          /\ HeldAtBegin(p) # <<>>
          /\ call[p].cb[1].state # HeldAtBegin(p)[1].state )
        => /\ Finished(p)
           /\ call[p].err = ErrServicesAuthWrongState
           /\ NothingSent(p)

\* a wrong state is refused after two sessions were started and a token stored
C1_Witness ==
    \E p \in Procs :
        /\ IsCompleteFlow(p) /\ Finished(p)
        /\ call[p].err = ErrServicesAuthWrongState
        /\ call[p].loadIdx = 2
        /\ Len(tokens) = 1

\* C2 as stated: a CompleteFlow that begins while no session was ever stored
\* fails with NotInitialized, whatever its callback.
C2_AlwaysNotInitialized ==
    \A p \in Procs :
        (IsCompleteFlow(p) /\ call[p].loadIdx = 0)
        => /\ Finished(p)
           /\ call[p].err = ErrServicesAuthNotInitialized
           /\ NothingSent(p)

\* C2: a CompleteFlow that begins while no session was ever stored sends no
\* exchange request and persists no token; it fails with NotInitialized when
\* its callback parses and carries no error parameter, with the server's
\* error when it carries one, with the parse error when it does not parse.
C2_NotInitialized ==
    \A p \in Procs :
        (IsCompleteFlow(p) /\ call[p].loadIdx = 0)
        => /\ Finished(p)
           /\ NothingSent(p)
           /\ call[p].err =
                 IF ~call[p].cb[1].parses THEN ErrURLParse
                 ELSE IF call[p].cb[1].error # "" THEN ErrServicesAuthServer
                 ELSE ErrServicesAuthNotInitialized

\* NotInitialized after a startSession that failed on its second nonce
C2_Witness ==
    \E p \in Procs :
        /\ IsCompleteFlow(p) /\ Finished(p)
        /\ call[p].err = ErrServicesAuthNotInitialized
        /\ nonceSrc = 1
        /\ stored = <<>>

\* C3: once a second session has been stored, a callback with the state of
\* an earlier session fails with WrongState and sends no exchange request,
\* and a callback with the state of the last one passes the validation: the
\* exchange request is sent.
C3_SecondSessionInvalidatesFirst ==
    \A p \in Procs :
        (IsCompleteFlow(p) /\ PlainCallback(p) /\ call[p].loadIdx >= 2)
        => /\ \A i \in 1..(call[p].loadIdx - 1) :
                 call[p].cb[1].state = stored[i].state
                 => /\ Finished(p)
                    /\ call[p].err = ErrServicesAuthWrongState
                    /\ NothingSent(p)
           /\ call[p].cb[1].state = stored[call[p].loadIdx].state
              => /\ call[p].req # <<>>
                 /\ call[p].err \notin {ErrServicesAuthWrongState,
                                        ErrServicesAuthNotInitialized}

\* the first session's state is refused after the second startSession
C3_Witness ==
    \E p \in Procs :
        /\ IsCompleteFlow(p) /\ Finished(p) /\ PlainCallback(p)
        /\ call[p].loadIdx = 2
        /\ call[p].cb[1].state = stored[1].state
        /\ call[p].err = ErrServicesAuthWrongState

\* C4: a callback with a non-empty error parameter fails with the server's
\* error before the session is loaded: whether or not a session is held and
\* whether or not the state matches, no request is sent and nothing is stored.
C4_ErrorParameterFirst ==
    \A p \in Procs :
        ( /\ IsCompleteFlow(p)
          /\ call[p].cb[1].parses
          /\ call[p].cb[1].error # "" )
        => /\ Finished(p)
           /\ call[p].err = ErrServicesAuthServer
           /\ call[p].detail = call[p].cb[1].error
           /\ call[p].auth = <<>>
           /\ NothingSent(p)

\* the error parameter wins over a state that matches the held session
C4_Witness ==
    \E p \in Procs :
        /\ IsCompleteFlow(p) /\ Finished(p)
        /\ call[p].err = ErrServicesAuthServer
        /\ HeldAtBegin(p) # <<>>
        /\ call[p].cb[1].state = HeldAtBegin(p)[1].state

\* t is the token of response r under session `session`.
TokenOfResponse(t, r, session) ==
    /\ t.Token = r.body.AccessToken
    /\ t.AuthenticationURL = session.baseURL
    /\ t.Expiration = -1
    /\ Len(t.SupportedServices) = Cardinality(DOMAIN r.body.Services)
    /\ \A k \in DOMAIN r.body.Services :
          \E i \in 1..Len(t.SupportedServices) :
              t.SupportedServices[i] =
                  [ServiceType |-> k, ServiceEndpoint |-> r.body.Services[k]]

\* C5 as stated: a good response makes CompleteFlow succeed, the metadata
\* store receiving the one token of the response.
C5_GoodResponseSucceeds ==
    \A p \in Procs :
        (IsCompleteFlow(p) /\ call[p].res # <<>> /\ GoodResponse(call[p].res[1]))
        => /\ call[p].err = ""
           /\ call[p].appended
           /\ call[p].svcToken # <<>>

\* C5: on a good response CompleteFlow hands the metadata store one token:
\* the access token, the session's baseURL, one service per entry of the
\* services mapping, expiration -1.  If the store accepts it CompleteFlow
\* succeeds and returns the derived ID of that token; if the store refuses
\* it CompleteFlow fails with the store's error.
C5_GoodResponseStored ==
    \A p \in Procs :
        (IsCompleteFlow(p) /\ call[p].res # <<>> /\ GoodResponse(call[p].res[1]))
        => /\ call[p].svcToken # <<>>
           /\ TokenOfResponse(call[p].svcToken[1], call[p].res[1],
                              HeldAtBegin(p)[1])
           /\ call[p].appended <=> call[p].err = ""
           /\ call[p].appended
              => /\ InTokens(call[p].svcToken[1])
                 /\ Finished(p) =>
                       call[p].reply = <<[TokenID |-> TokenID(call[p].svcToken[1])]>>
           /\ ~call[p].appended
              => /\ Finished(p)
                 /\ call[p].err = ErrMetadataStore
                 /\ call[p].reply = <<>>

\* a token with two services was stored and its ID returned
C5_Witness ==
    \E p \in Procs :
        /\ IsCompleteFlow(p) /\ Finished(p)
        /\ call[p].appended
        /\ call[p].reply # <<>>
        /\ Len(call[p].svcToken[1].SupportedServices) = 2

\* A token with a bearer credential and at least one supported service.
ValidToken(t) == t.Token # "" /\ Len(t.SupportedServices) >= 1

C7_PushNeverFailsFlow ==
    \A p \in Procs :
        (IsCompleteFlow(p) /\ call[p].appended)
        => /\ call[p].err = ""
           /\ InTokens(call[p].svcToken[1])
           /\ Finished(p) =>
                 call[p].reply = <<[TokenID |-> TokenID(call[p].svcToken[1])]>>

\* the handler returned the ID after createAndGetPushClient had failed
C7_Witness ==
    \E p \in Procs :
        /\ IsCompleteFlow(p) /\ Finished(p)
        /\ call[p].appended
        /\ call[p].reply # <<>>
        /\ Len(call[p].pushCalls) = 1
        /\ call[p].pushCalls[1].op = "createAndGetPushClient"

PushServices(services) ==
    { i \in 1..Len(services) : services[i].ServiceType = ServicePushID }

\* the calls of createAndGetPushClient among calls
ClientCalls(calls) ==
    { i \in 1..Len(calls) : calls[i].op = "createAndGetPushClient" }

C9_Frame ==
    /\ authSession # <<>> => authSession' # <<>>
    /\ \A p \in Procs :
          ( /\ call'[p] # call[p]
            /\ call[p].op = "CompleteFlow" \/ call'[p].op = "CompleteFlow" )
          => authSession' = authSession

\* A callback with the state of a session that a CompleteFlow has already
\* succeeded with passes the validation again: the exchange request is sent
\* with that session's codeVerifier.
C9_Replay ==
    \A p \in Procs :
        ( /\ IsCompleteFlow(p)
          /\ PlainCallback(p)
          /\ HeldAtBegin(p) # <<>>
          /\ HeldAtBegin(p)[1] \in completed
          /\ call[p].cb[1].state = HeldAtBegin(p)[1].state )
        => /\ call[p].req # <<>>
           /\ call[p].req[1].code_verifier = HeldAtBegin(p)[1].codeVerifier
           /\ call[p].req[1].endpoint[1] = HeldAtBegin(p)[1].baseURL

\* C9: CompleteFlow never modifies or clears the held session, so a replayed
\* callback passes validation and is exchanged with the same codeVerifier
\* until a later startSession replaces the session; a slot that holds a
\* session is never empty again.
C9_SessionKept == []C9_Replay /\ [][C9_Frame]_vars

\* a replayed callback is being exchanged while the session is still held
C9_Witness ==
    \E p \in Procs :
        /\ pc[p] = "exchange"
        /\ call[p].replay
        /\ authSession = call[p].auth
        /\ HeldAtBegin(p)[1] \in completed

\* The session held after the InitFlow call on p is the one it generated.
Replaced(p) ==
    LET s == call[p].auth[1]
        n == Len(stored)
        in == call[p].baseURL[1]
    IN  /\ n >= 1
        /\ authSession = <<s>>
        /\ s = stored[n]
        /\ s.baseURL.scheme = in.scheme /\ s.baseURL.host = in.host
        /\ s.baseURL.slashes = IF in.slashes = 0 THEN 0 ELSE in.slashes - 1
        /\ s.state # s.codeVerifier
        /\ \A i \in 1..(n - 1) :
              /\ stored[i].state \notin {s.state, s.codeVerifier}
              /\ stored[i].codeVerifier \notin {s.state, s.codeVerifier}
        /\ call[p].reply[1].URL.state = s.state
        /\ call[p].reply[1].URL.base = s.baseURL

NothingHanded(p) ==
    /\ call[p].svcToken = <<>>
    /\ ~call[p].appended
    /\ call[p].pushCalls = <<>>
    /\ call[p].reply = <<>>

\* The step is one of the call on p and leaves it in state Q.
StepInto(p, Q) == call'[p] # call[p] /\ Q

\* The exchange of the CompleteFlow call on p was answered with a status of
\* 300 or more.
BadStatus(c) ==
    /\ c.op = "CompleteFlow"
    /\ c.res # <<>>
    /\ c.res[1].transportOK
    /\ c.res[1].status >= 300

C11_Rejected ==
    \A p \in Procs :
        BadStatus(call[p])
        => /\ Finished(p)
           /\ call[p].err = ErrServicesAuthInvalidResponse
           /\ call[p].detail = "invalid status code"
           /\ call[p].status = call[p].res[1].status
           /\ NothingHanded(p)

C11_Frame ==
    \A p \in Procs :
        StepInto(p, BadStatus(call'[p]))
        => tokens' = tokens /\ pushServer' = pushServer

\* C11: an answer of the token endpoint with a status of 300 or more makes
\* CompleteFlow fail with InvalidResponse carrying that status, whatever the
\* body holds; the step hands nothing to the metadata store, leaves the
\* stored tokens and the push server as they were and makes no push call.
C11_StatusRejected == []C11_Rejected /\ [][C11_Frame]_vars

\* status 500 with a body that status 200 would have been accepted with
C11_Witness ==
    \E p \in Procs :
        /\ BadStatus(call[p]) /\ Finished(p)
        /\ call[p].res[1].status = 500
        /\ call[p].res[1].jsonOK
        /\ call[p].res[1].body.Error = ""
        /\ call[p].res[1].body.AccessToken = "tok1"
        /\ tokens = <<>>

\* The exchange of the CompleteFlow call on p was answered with a status
\* under 300 and a body that parsed.
ParsedAnswer(p) ==
    /\ IsCompleteFlow(p)
    /\ call[p].res # <<>>
    /\ call[p].res[1].transportOK
    /\ call[p].res[1].status < 300
    /\ call[p].res[1].bodyOK
    /\ call[p].res[1].jsonOK

\* C12: the parsed answer is checked in this order, the first failing check
\* deciding the error, and nothing is handed to the metadata store before:
\* a non-empty error field gives ErrServicesAuthServer, whatever the token
\* and the services; else an empty access token gives InvalidResponse
\* "missing access token", whatever the services; else an empty services
\* mapping gives InvalidResponse "no services returned".
C12_CheckOrder ==
    \A p \in Procs :
        ParsedAnswer(p)
        => LET b == call[p].res[1].body
           IN  /\ b.Error # ""
                  => /\ Finished(p)
                     /\ call[p].err = ErrServicesAuthServer
                     /\ NothingHanded(p)
               /\ (b.Error = "" /\ b.AccessToken = "")
                  => /\ Finished(p)
                     /\ call[p].err = ErrServicesAuthInvalidResponse
                     /\ call[p].detail = "missing access token in response"
                     /\ NothingHanded(p)
               /\ (b.Error = "" /\ b.AccessToken # "" /\ DOMAIN b.Services = {})
                  => /\ Finished(p)
                     /\ call[p].err = ErrServicesAuthInvalidResponse
                     /\ call[p].detail = "no services returned along token"
                     /\ NothingHanded(p)
               /\ (b.Error = "" /\ b.AccessToken # "" /\ DOMAIN b.Services # {})
                  => call[p].svcToken # <<>>

\* an answer with neither token nor services: the token is missed first
C12_Witness ==
    \E p \in Procs :
        /\ ParsedAnswer(p) /\ Finished(p)
        /\ call[p].res[1].body.Error = ""
        /\ call[p].res[1].body.AccessToken = ""
        /\ DOMAIN call[p].res[1].body.Services = {}
        /\ call[p].detail = "missing access token in response"

\* C13: the URL a successful InitFlow returns goes with the session it stored:
\* its state is the session's state, its code_challenge is the unpadded
\* URL-safe base64 of the SHA-256 digest of the bytes of the session's
\* codeVerifier string, its base is the session's baseURL; and the
\* code_verifier an exchange sends is the codeVerifier of the session loaded.
C13_URLConsistent ==
    /\ \A p \in Procs :
          (IsInitFlow(p) /\ Finished(p) /\ call[p].err = "")
          => /\ authSession # <<>>
             /\ authSession = call[p].auth
             /\ authSession[1] = stored[Len(stored)]
             /\ call[p].reply # <<>>
             /\ LET u == call[p].reply[1].URL
                    session == authSession[1]
                IN  /\ u.state = session.state
                    /\ u.code_challenge =
                          B64(Sha256(StrBytes(session.codeVerifier)))
                    /\ u.code_challenge # session.codeVerifier
                    /\ u.code_challenge_method = "S256"
                    /\ u.base = session.baseURL
                    /\ u.path = AuthHTTPPathAuthorize
    /\ \A p \in Procs :
          (IsCompleteFlow(p) /\ call[p].req # <<>>)
          => /\ call[p].req[1].code_verifier = HeldAtBegin(p)[1].codeVerifier
             /\ call[p].req[1].code_verifier = call[p].auth[1].codeVerifier

\* the URL of the second session, returned for a baseURL that ended with "/"
C13_Witness ==
    \E p \in Procs :
        /\ IsInitFlow(p) /\ Finished(p) /\ call[p].err = ""
        /\ Len(stored) = 2
        /\ call[p].baseURL[1].slashes = 1
        /\ call[p].reply[1].URL.state = B64(Nonce(3))
        /\ call[p].reply[1].URL.code_challenge =
              B64(Sha256(StrBytes(B64(Nonce(4)))))

\* The metadata store refused the token the CompleteFlow call c built.
AppendRefused(c) ==
    /\ c.op = "CompleteFlow"
    /\ c.svcToken # <<>>
    /\ ~c.appended

C14_Returned ==
    \A p \in Procs :
        AppendRefused(call[p])
        => /\ Finished(p)
           /\ call[p].err = ErrMetadataStore
           /\ call[p].detail = ""
           /\ call[p].status = 0
           /\ call[p].reply = <<>>
           /\ call[p].pushCalls = <<>>
           /\ call[p].infoKeys = <<>>

C14_Frame ==
    \A p \in Procs :
        StepInto(p, AppendRefused(call'[p]))
        => tokens' = tokens /\ pushServer' = pushServer

\* C14: when the append of the token to the metadata store fails, CompleteFlow
\* returns the store's error as it is and no token ID, and makes no push
\* call: no createAndGetPushClient, no ServerInfo, no PushSetServer; the
\* stored tokens and the push server stay as they were.
C14_AppendFailure == []C14_Returned /\ [][C14_Frame]_vars

\* the store refused a token with a push service while it held none
C14_Witness ==
    \E p \in Procs :
        /\ AppendRefused(call[p]) /\ Finished(p)
        /\ tokens = <<>>
        /\ PushServices(call[p].svcToken[1].SupportedServices) # {}

\* The context of the CompleteFlow call c was done while its exchange request
\* was in flight.
Aborted(c) == c.op = "CompleteFlow" /\ c.ctxErr # ""

C15_Returned ==
    \A p \in Procs :
        Aborted(call[p])
        => /\ Finished(p)
           /\ call[p].err = ErrStreamWrite
           /\ call[p].res # <<>>
           /\ ~call[p].res[1].transportOK
           /\ call[p].req # <<>>
           /\ NothingHanded(p)

C15_Frame ==
    \A p \in Procs :
        StepInto(p, Aborted(call'[p]))
        => tokens' = tokens /\ pushServer' = pushServer

\* C15: when the caller cancels or the deadline elapses while the exchange
\* request is in flight, the request is aborted and CompleteFlow returns
\* ErrStreamWrite; nothing is handed to the metadata store, the stored
\* tokens stay as they were and no push call is made.
C15_CancelAborts == []C15_Returned /\ [][C15_Frame]_vars

\* the deadline elapsed during the exchange of a callback that had matched
C15_Witness ==
    \E p \in Procs :
        /\ Aborted(call[p]) /\ Finished(p)
        /\ call[p].ctxErr = "context deadline exceeded"
        /\ call[p].cb[1].state = HeldAtBegin(p)[1].state
        /\ call[p].err = ErrStreamWrite

IsTokenList(p) == call[p].op = "TokenList"

\* s is a prefix of t
IsPrefix(s, t) ==
    /\ Len(s) <= Len(t)
    /\ \A i \in 1..Len(s) : s[i] = t[i]

C16_Sent ==
    \A p \in Procs :
        IsTokenList(p)
        => /\ IsPrefix(call[p].list, tokens)
           /\ Len(call[p].sent) <= Len(call[p].list)
           /\ \A i \in 1..Len(call[p].sent) :
                 call[p].sent[i] = [TokenID |-> TokenID(tokens[i]),
                                    Service |-> tokens[i]]
           /\ call[p].idx = Len(call[p].sent) + 1
           /\ pc[p] = "list" => call[p].ctxErr = "" /\ call[p].err = ""
           /\ call[p].err \in {"", ErrSend}
           /\ call[p].err = ErrSend => call[p].ctxErr = ""
           /\ (Finished(p) /\ call[p].ctxErr # "")
              => /\ call[p].err = ""
                 /\ Len(call[p].sent) < Len(call[p].list)
           /\ (Finished(p) /\ call[p].ctxErr = "" /\ call[p].err = "")
              => Len(call[p].sent) = Len(call[p].list)

C16_OneAtATime ==
    \A p \in Procs :
        (call[p].op = "TokenList" /\ call'[p].op = "TokenList")
        => /\ IsPrefix(call[p].sent, call'[p].sent)
           /\ Len(call'[p].sent) <= Len(call[p].sent) + 1
           /\ call'[p].ctxErr # "" => call'[p].sent = call[p].sent
           /\ call'[p].err # "" => call'[p].sent = call[p].sent
           /\ tokens' = tokens \/ call'[p] = call[p]

\* C16: ServicesTokenList sends the tokens of the metadata store one at a
\* time, in the store's order, each with its token ID.  When the context is
\* done it sends no further token and returns nil; it returns an error only
\* when a send fails; what it has sent is at any time a prefix of the stored
\* list, and the whole list when it returns nil with a context that is not
\* done.  It leaves the store as it is.
C16_ListIsPrefix == []C16_Sent /\ [][C16_OneAtATime]_vars

\* cancelled after the first of two tokens was sent
C16_Witness ==
    \E p \in Procs :
        /\ IsTokenList(p) /\ Finished(p)
        /\ call[p].ctxErr = "context canceled"
        /\ call[p].err = ""
        /\ Len(call[p].sent) = 1
        /\ Len(call[p].list) = 2

\* session is a session as one call of newAuthSession builds it.
WholeSession(session) ==
    \E n \in 1..(MaxNonce - 1), u \in BaseURLs :
        /\ ValidAuthURL(u)
        /\ session = newAuthSession(TrimSuffixSlash(u), Nonce(n), Nonce(n + 1)).auth

C17_Held ==
    /\ authSession = IF stored = <<>> THEN <<>> ELSE <<stored[Len(stored)]>>
    /\ authSession # <<>> => WholeSession(authSession[1])
    /\ \A i, j \in 1..Len(stored) :
          i # j => /\ stored[i].state # stored[j].state
                   /\ stored[i].codeVerifier # stored[j].codeVerifier
    /\ \A p \in Procs :
          (IsInitFlow(p) /\ call[p].auth # <<>>)
          => /\ WholeSession(call[p].auth[1])
             /\ call[p].auth[1].baseURL = TrimSuffixSlash(call[p].baseURL[1])
             /\ Finished(p) => authSession = call[p].auth
    /\ \A p \in Procs :
          ( /\ IsCompleteFlow(p) /\ PlainCallback(p)
            /\ \E i \in 1..(call[p].loadIdx - 1) :
                  call[p].cb[1].state = stored[i].state )
          => /\ Finished(p)
             /\ call[p].err = ErrServicesAuthWrongState
             /\ NothingSent(p)

C17_StoreIsWhole ==
    authSession' # authSession
    => \E p \in Procs :
          /\ pc[p] = "init_store" /\ pc'[p] = "done"
          /\ authSession' = call[p].auth
          /\ stored' = Append(stored, call[p].auth[1])

\* C17: under any interleaving of InitFlow calls the slot holds one whole
\* session, built by a single call, and it is the session of the call that
\* stored last: each change of the slot puts there the session one call
\* built.  A later callback with the state of a session stored before the
\* held one fails with WrongState and sends no exchange request.
C17_LastStoreWins == []C17_Held /\ [][C17_StoreIsWhole]_vars

\* two calls in flight stored in the reverse order of their nonces, and the
\* state of the one that stored first is refused
C17_Witness ==
    \E p \in Procs :
        /\ IsCompleteFlow(p) /\ Finished(p)
        /\ call[p].err = ErrServicesAuthWrongState
        /\ Len(stored) = 2
        /\ stored[1].state = B64(Nonce(3))
        /\ stored[2].state = B64(Nonce(1))
        /\ stored[1].baseURL # stored[2].baseURL
        /\ call[p].cb[1].state = stored[1].state

\* C18: CompleteFlow uses the session it loaded once: the code_verifier and
\* the endpoint of the exchange request and the AuthenticationURL of the token
\* built and persisted are those of the session that was held when the
\* callback was validated and whose state the callback carries, also when
\* an InitFlow has replaced the held session since.
C18_Snapshot ==
    \A p \in Procs :
        (IsCompleteFlow(p) /\ call[p].req # <<>>)
        => /\ HeldAtBegin(p) # <<>>
           /\ call[p].auth = HeldAtBegin(p)
           /\ LET session == HeldAtBegin(p)[1]
              IN  /\ session.state = call[p].cb[1].state
                  /\ call[p].req[1].code_verifier = session.codeVerifier
                  /\ call[p].req[1].endpoint =
                        <<session.baseURL, AuthHTTPPathTokenExchange>>
                  /\ call[p].svcToken # <<>>
                     => call[p].svcToken[1].AuthenticationURL = session.baseURL
                  /\ call[p].appended
                     => \E i \in 1..Len(tokens) :
                           /\ tokens[i] = call[p].svcToken[1]
                           /\ tokens[i].AuthenticationURL = session.baseURL

\* a token was persisted after the session had been replaced by one with
\* another baseURL during the exchange
C18_Witness ==
    \E p \in Procs :
        /\ IsCompleteFlow(p) /\ Finished(p)
        /\ call[p].appended
        /\ call[p].loadIdx = 1
        /\ Len(stored) = 2
        /\ authSession # call[p].auth
        /\ authSession[1].baseURL # call[p].auth[1].baseURL
        /\ tokens[1].AuthenticationURL = stored[1].baseURL

\* The InitFlow call c has failed.
FailedInit(c) == c.op = "InitFlow" /\ c.err # ""

C19_Failure ==
    \A p \in Procs :
        IsInitFlow(p)
        => /\ ~ValidAuthURL(call[p].baseURL[1])
              => /\ Finished(p)
                 /\ call[p].err = ErrServicesAuthInvalidURL
           /\ (ValidAuthURL(call[p].baseURL[1]) /\ call[p].err # "")
              => call[p].err = ErrNonce
           /\ call[p].err # ""
              => /\ Finished(p)
                 /\ call[p].auth = <<>>
                 /\ call[p].reply = <<>>

C19_Frame ==
    \A p \in Procs :
        StepInto(p, FailedInit(call'[p]))
        => /\ authSession' = authSession
           /\ stored' = stored
           /\ tokens' = tokens

\* A callback with the state of the session held when it was validated is
\* exchanged, whatever InitFlow calls have failed before.
C19_StillLive ==
    \A p \in Procs :
        ( /\ IsCompleteFlow(p) /\ PlainCallback(p)
          /\ HeldAtBegin(p) # <<>>
          /\ call[p].cb[1].state = HeldAtBegin(p)[1].state )
        => /\ call[p].req # <<>>
           /\ call[p].err \notin {ErrServicesAuthNotInitialized,
                                  ErrServicesAuthWrongState}

\* C19: an InitFlow fails with InvalidURL when its baseURL does not parse, has
\* a scheme other than http and https or has no host, and with the error of
\* the nonce generation when that fails; a failing InitFlow stores nothing:
\* the slot keeps the session it held, which a callback can still complete,
\* and an empty slot stays empty.
C19_FailedInitKeepsSession ==
    /\ []C19_Failure
    /\ []C19_StillLive
    /\ [][C19_Frame]_vars

\* an InitFlow failed on its second nonce while a session was held
C19_Witness ==
    \E p \in Procs :
        /\ IsInitFlow(p) /\ Finished(p)
        /\ call[p].err = ErrNonce
        /\ nonceSrc = 3
        /\ stored # <<>>
        /\ authSession = <<stored[1]>>
        /\ stored[1].state = B64(Nonce(1))

\* the calls of PushSetServer among the first i of calls
SetCalls(calls, i) ==
    { j \in 1..i : calls[j].op = "PushSetServer" }

C20_Order ==
    \A p \in Procs :
        /\ call[p].pushCalls # <<>>
           => /\ IsCompleteFlow(p)
              /\ call[p].appended
              /\ InTokens(call[p].svcToken[1])
        /\ \A i \in 1..Len(call[p].pushCalls) :
              LET k == call[p].pushCalls[i]
                  calls == call[p].pushCalls
              IN  /\ \E j \in PushServices(call[p].services) :
                        /\ j <= call[p].idx
                        /\ call[p].services[j].ServiceEndpoint = k.endpoint
                  /\ k.op = "createAndGetPushClient"
                     => /\ k.arg = call[p].svcToken[1].Token
                        /\ \A j \in 1..Len(calls) :
                              (j # i /\ calls[j].op = k.op)
                              => calls[j].endpoint # k.endpoint
                  /\ k.op = "ServerInfo"
                     => /\ i > 1
                        /\ calls[i - 1].op = "createAndGetPushClient"
                        /\ calls[i - 1].endpoint = k.endpoint
                  /\ k.op = "PushSetServer"
                     => /\ i > 1
                        /\ calls[i - 1].op = "ServerInfo"
                        /\ calls[i - 1].endpoint = k.endpoint
                        /\ Cardinality(SetCalls(calls, i)) <= Len(call[p].infoKeys)
                        /\ k.arg = call[p].infoKeys[Cardinality(SetCalls(calls, i))]
        /\ (IsCompleteFlow(p) /\ call[p].appended /\ Finished(p))
           => /\ call[p].idx = Len(call[p].services) + 1
              /\ \A j \in PushServices(call[p].services) :
                    \E i \in 1..Len(call[p].pushCalls) :
                        /\ call[p].pushCalls[i].op = "createAndGetPushClient"
                        /\ call[p].pushCalls[i].endpoint =
                              call[p].services[j].ServiceEndpoint

C20_SetServer ==
    pushServer' # pushServer
    => \E p \in Procs :
          LET calls == call'[p].pushCalls
          IN  \E i \in (Len(call[p].pushCalls) + 1)..Len(calls) :
                  /\ calls[i].op = "PushSetServer"
                  /\ pushServer' = <<[ServerKey |-> calls[i].arg,
                                      ServiceAddr |-> calls[i].endpoint]>>

\* C20: push calls are made only by a CompleteFlow whose token the metadata
\* store has accepted, and only for services of the push type: each push
\* service gets one createAndGetPushClient, ServerInfo is called after it on
\* the same endpoint, PushSetServer only after a ServerInfo that succeeded on
\* the same endpoint and with the key it returned, and the loop visits every
\* service whatever the push calls did.
C20_PushOrder == []C20_Order /\ [][C20_SetServer]_vars

\* ServerInfo failed for the push service visited first, and the loop went on
\* to the service after it
C20_Witness ==
    \E p \in Procs :
        /\ IsCompleteFlow(p) /\ Finished(p) /\ call[p].appended
        /\ Len(call[p].services) = 2
        /\ call[p].services[1].ServiceType = ServicePushID
        /\ Len(call[p].pushCalls) = 2
        /\ call[p].pushCalls[2].op = "ServerInfo"
        /\ call[p].idx = 3

====
